---- MODULE Spec2Model ----
(***************************************************************************)
(* A model of the go-tado client: request construction (NewRequest),       *)
(* dispatch (bareDo / BareDo), response decoding (Do) and client assembly  *)
(* (NewClient, initialize, clone, WithOAuthClient).                        *)
(*                                                                         *)
(* Text is modelled as a sequence of tokens.  The tokens "/", "." and ":"  *)
(* are the characters net/url gives a meaning to; every other token        *)
(* ("a", "api", "https", ...) stands for a run of letters.                 *)
(***************************************************************************)
EXTENDS Integers, Sequences, FiniteSets, TLC

VARIABLES
    reqPc,      \* "idle" | "returned": a NewRequest call and its return
    reqArgs,    \* the receiver and arguments of that call
    reqRet      \* what it returned: [req, err, steps]

reqVars == << reqPc, reqArgs, reqRet >>

VARIABLES
    clients,    \* the Client values made so far, a pointer being an index
    sources,    \* the token sources made so far (oauth2.TokenSource values)
    lastNew,    \* how the latest NewClient call ended: "none", "ok", "panic"
    call        \* per caller: the BareDo / Do call it is in, and how far it is

heapVars == << clients, sources, lastNew >>

vars == << reqPc, reqArgs, reqRet, clients, sources, lastNew, call >>

\* Longest caller-supplied path, in tokens.
MaxPath == 3

\* Most request options passed to one NewRequest call.
MaxOpts == 2

\* Longest response body, in tokens.
MaxBody == 3

\* Most refreshes one token source performs.
MaxRefresh == 1

\* Most clients made in one run.
MaxClients == 3

----------------------------------------------------------------------------
(* strings *)

HasPrefix(s, p) == Len(s) >= Len(p) /\ SubSeq(s, 1, Len(p)) = p

HasSuffix(s, p) == Len(s) >= Len(p) /\ SubSeq(s, Len(s) - Len(p) + 1, Len(s)) = p

TrimPrefix(s, p) == IF HasPrefix(s, p) THEN SubSeq(s, Len(p) + 1, Len(s)) ELSE s

\* strings.Index / strings.LastIndex for a one-token needle; 0 when absent.
Index(s, t) ==
    IF \E i \in 1..Len(s) : s[i] = t
    THEN CHOOSE i \in 1..Len(s) : s[i] = t /\ \A j \in 1..(i - 1) : s[j] # t
    ELSE 0

LastIndex(s, t) ==
    IF \E i \in 1..Len(s) : s[i] = t
    THEN CHOOSE i \in 1..Len(s) : s[i] = t /\ \A j \in (i + 1)..Len(s) : s[j] # t
    ELSE 0

Contains(s, t) == \E i \in 1..Len(s) : s[i] = t

\* strings.Split(s, "/"): the elements between separators, empty ones kept.
RECURSIVE SplitSlash(_)
SplitSlash(s) ==
    LET i == Index(s, "/") IN
    IF i = 0 THEN << s >>
    ELSE << SubSeq(s, 1, i - 1) >> \o SplitSlash(SubSeq(s, i + 1, Len(s)))

\* All token sequences over alphabet A of length at most n.
RECURSIVE SeqsUpTo(_, _)
SeqsUpTo(A, n) ==
    IF n = 0 THEN { << >> }
    ELSE LET shorter == SeqsUpTo(A, n - 1) IN
         shorter \cup { Append(s, a) : s \in shorter, a \in A }

----------------------------------------------------------------------------
(* net/url, as far as NewRequest uses it *)

NoURL == [err |-> "", Scheme |-> << >>, Opaque |-> << >>, Host |-> << >>,
          Path |-> << >>, OmitHost |-> FALSE]

URLErr(e) == [NoURL EXCEPT !.err = e]

\* url.getScheme: 0 = no scheme, -1 = "missing protocol scheme", k = index of
\* the colon ending the scheme.
RECURSIVE getScheme(_, _)
getScheme(raw, i) ==
    IF i > Len(raw) THEN 0
    ELSE IF raw[i] = ":" THEN (IF i = 1 THEN -1 ELSE i)
    ELSE IF raw[i] = "/" THEN 0
    ELSE IF raw[i] = "." THEN (IF i = 1 THEN 0 ELSE getScheme(raw, i + 1))
    ELSE getScheme(raw, i + 1)

\* url.validOptionalPort on the text from the last colon of the host: a colon
\* followed by digits only.  No token of the model is a digit.
validOptionalPort(colonPort) == Len(colonPort) <= 1

\* url.parseHost
parseHostOk(host) ==
    LET k == LastIndex(host, ":") IN
    k = 0 \/ validOptionalPort(SubSeq(host, k, Len(host)))

\* url.Parse (viaRequest = false; the model's text holds no '#', '?', '%', '@').
urlParse(raw) ==
    LET k == getScheme(raw, 1) IN
    IF k = -1 THEN URLErr("url.Error")
    ELSE
    LET scheme == IF k = 0 THEN << >> ELSE SubSeq(raw, 1, k - 1)
        rest   == IF k = 0 THEN raw ELSE SubSeq(raw, k + 1, Len(raw))
    IN
    IF ~HasPrefix(rest, << "/" >>) /\ scheme # << >>
    THEN [NoURL EXCEPT !.Scheme = scheme, !.Opaque = rest]
    ELSE IF ~HasPrefix(rest, << "/" >>) /\ Contains(SplitSlash(rest)[1], ":")
    THEN URLErr("url.Error")
    ELSE IF (scheme # << >> \/ ~HasPrefix(rest, << "/", "/", "/" >>))
            /\ HasPrefix(rest, << "/", "/" >>)
    THEN LET a    == SubSeq(rest, 3, Len(rest))
             i    == Index(a, "/")
             host == IF i = 0 THEN a ELSE SubSeq(a, 1, i - 1)
             path == IF i = 0 THEN << >> ELSE SubSeq(a, i, Len(a))
         IN IF parseHostOk(host)
            THEN [NoURL EXCEPT !.Scheme = scheme, !.Host = host, !.Path = path]
            ELSE URLErr("url.Error")
    ELSE [NoURL EXCEPT !.Scheme = scheme, !.Path = rest,
                       !.OmitHost = (scheme # << >> /\ HasPrefix(rest, << "/" >>))]

\* The loop of url.resolvePath over the elements of the joined path: dst is the
\* text written so far (it starts as "/"), first the flag of the same name.
RECURSIVE removeDotSegments(_, _, _, _)
removeDotSegments(elems, i, dst, first) ==
    IF i > Len(elems) THEN dst
    ELSE LET elem == elems[i] IN
         IF elem = << "." >> THEN removeDotSegments(elems, i + 1, dst, FALSE)
         ELSE IF elem = << ".", "." >>
         THEN LET str   == SubSeq(dst, 2, Len(dst))
                  index == LastIndex(str, "/")
              IN IF index = 0
                 THEN removeDotSegments(elems, i + 1, << "/" >>, TRUE)
                 ELSE removeDotSegments(elems, i + 1,
                          << "/" >> \o SubSeq(str, 1, index - 1), first)
         ELSE removeDotSegments(elems, i + 1,
                  (IF first THEN dst ELSE Append(dst, "/")) \o elem, FALSE)

\* url.resolvePath
resolvePath(base, ref) ==
    LET full == IF ref = << >> THEN base
                ELSE IF ref[1] # "/"
                THEN SubSeq(base, 1, LastIndex(base, "/")) \o ref
                ELSE ref
    IN
    IF full = << >> THEN << >>
    ELSE LET elems == SplitSlash(full)
             last  == elems[Len(elems)]
             dst   == removeDotSegments(elems, 1, << "/" >>, TRUE)
             r     == IF last = << "." >> \/ last = << ".", "." >>
                      THEN Append(dst, "/") ELSE dst
         IN IF Len(r) > 1 /\ r[2] = "/" THEN SubSeq(r, 2, Len(r)) ELSE r

\* (*URL).ResolveReference
ResolveReference(u, ref) ==
    LET url == IF ref.Scheme = << >> THEN [ref EXCEPT !.Scheme = u.Scheme] ELSE ref IN
    IF ref.Scheme # << >> \/ ref.Host # << >>
    THEN [url EXCEPT !.Path = resolvePath(ref.Path, << >>)]
    ELSE IF ref.Opaque # << >>
    THEN [url EXCEPT !.Host = << >>, !.Path = << >>]
    ELSE IF ref.Path = << >> /\ u.Opaque # << >>
    THEN [url EXCEPT !.Opaque = u.Opaque, !.Host = << >>, !.Path = << >>]
    ELSE [url EXCEPT !.Host = u.Host, !.Path = resolvePath(u.Path, ref.Path)]

\* (*URL).Parse: parse the reference, then resolve it against u.
URLParse(u, ref) ==
    LET r == urlParse(ref) IN
    IF r.err # "" THEN r ELSE ResolveReference(u, r)

\* (*URL).String
URLString(u) ==
    LET scheme == IF u.Scheme # << >> THEN Append(u.Scheme, ":") ELSE << >> IN
    IF u.Opaque # << >> THEN scheme \o u.Opaque
    ELSE
    LET auth == IF u.Scheme # << >> \/ u.Host # << >>
                THEN IF u.OmitHost /\ u.Host = << >> THEN << >>
                     ELSE (IF u.Host # << >> \/ u.Path # << >>
                           THEN << "/", "/" >> ELSE << >>) \o u.Host
                ELSE << >>
        sep  == IF u.Path # << >> /\ u.Path[1] # "/" /\ u.Host # << >>
                THEN << "/" >> ELSE << >>
        dot  == IF scheme \o auth \o sep = << >>
                   /\ Contains(SplitSlash(u.Path)[1], ":")
                THEN << ".", "/" >> ELSE << >>
    IN scheme \o auth \o sep \o dot \o u.Path

\* http.removeEmptyPort
removeEmptyPort(host) ==
    IF HasSuffix(host, << ":" >>) THEN SubSeq(host, 1, Len(host) - 1) ELSE host

----------------------------------------------------------------------------
(* constants of the package *)

\* const DefaultBaseURL = "https://my.tado.com/api/v2/", as url.Parse reads it.
DefaultBaseURL ==
    [NoURL EXCEPT !.Scheme = << "https" >>, !.Host = << "my.tado.com" >>,
                  !.Path = << "/", "api", "/", "v2", "/" >>]

DefaultUserAgent == "go-tado"

----------------------------------------------------------------------------
(* NewRequest *)

NoRequest == [nil |-> TRUE]

NoHeader == "<unset>"

HeaderNames == { "Content-Type", "Accept", "User-Agent" }

\* The values a caller passes as body: none, User{ID: "test-id"}, a User whose
\* ID holds the characters HTML escaping is about, User{}, and a value holding
\* a map[interface{}]interface{}.
Bodies == { "nil", "User", "UserHTML", "UserEmpty", "Unsupported" }

\* The ID field of a body that is a User (user.go:54-62), as its characters; a
\* run of letters is one of them.
UserID(body) ==
    CASE body = "User"     -> << "test-id" >>
      [] body = "UserHTML" -> << "<", "a", ">", "&", "\"" >>
      [] OTHER             -> << >>

\* One character of a string as the encoder writes it: quote and backslash are
\* escaped always, <, > and & when escapeHTML.
jsonEscape(ch, escapeHTML) ==
    CASE ch = "\""              -> << "\\", "\"" >>
      [] ch = "\\"              -> << "\\", "\\" >>
      [] escapeHTML /\ ch = "<" -> << "\\u003c" >>
      [] escapeHTML /\ ch = ">" -> << "\\u003e" >>
      [] escapeHTML /\ ch = "&" -> << "\\u0026" >>
      [] OTHER                  -> << ch >>

\* A string as a JSON string.
RECURSIVE jsonString(_, _)
jsonString(str, escapeHTML) ==
    IF str = << >> THEN << >>
    ELSE jsonEscape(Head(str), escapeHTML) \o jsonString(Tail(str), escapeHTML)

\* A User as JSON: every field is omitempty, so only a non-empty ID shows.
marshalUser(body, escapeHTML) ==
    << "{" >>
    \o (IF UserID(body) = << >> THEN << >>
        ELSE << "\"id\"", ":", "\"" >> \o jsonString(UserID(body), escapeHTML)
             \o << "\"" >>)
    \o << "}" >>

\* json.Encoder.Encode: the value's JSON text and a newline, or an
\* UnsupportedTypeError.
jsonEncodeWith(body, escapeHTML) ==
    IF body = "Unsupported"
    THEN [err |-> "json.UnsupportedTypeError", payload |-> << >>]
    ELSE [err |-> "", payload |-> marshalUser(body, escapeHTML) \o << "\n" >>]

\* The encoder left as json.NewEncoder makes it, escaping HTML.
jsonEncodeEscapingHTML(body) == jsonEncodeWith(body, TRUE)

\* The encoder of NewRequest (tado.go:129-132): SetEscapeHTML(false).
jsonEncode(body) == jsonEncodeWith(body, FALSE)

\* A check of the method that lets every text through.
validMethodAny(method) == TRUE

\* http.validMethod: a non-empty run of token characters.
validMethod(method) == method \in { "GET", "PUT", "DELETE" }

\* http.NewRequest: check the method, parse the URL text, drop an empty port.
httpNewRequest(method, urlText, payload) ==
    LET u == urlParse(urlText) IN
    IF ~validMethod(method) THEN [req |-> NoRequest, err |-> "http.InvalidMethod"]
    ELSE IF u.err # "" THEN [req |-> NoRequest, err |-> u.err]
    ELSE [req |-> [nil    |-> FALSE,
                   Method |-> method,
                   URL    |-> URLString([u EXCEPT !.Host = removeEmptyPort(u.Host)]),
                   Body   |-> payload,
                   Header |-> [h \in HeaderNames |-> NoHeader]],
          err |-> ""]

\* RequestOptions that set one header each: func(req) { req.Header.Set(name, value) }.
RequestOptions ==
    { [name |-> "Accept",       value |-> "opt1"],
      [name |-> "Accept",       value |-> "opt2"],
      [name |-> "User-Agent",   value |-> "opt1"],
      [name |-> "Content-Type", value |-> "opt1"] }

\* The options run before the default headers are set: a default, where there
\* is one, replaces what the options wrote.
applyOptsBeforeDefaults(req, opts) ==
    [req EXCEPT !.Header =
        [h \in HeaderNames |->
            IF req.Header[h] # NoHeader \/ ~\E i \in 1..Len(opts) : opts[i].name = h
            THEN req.Header[h]
            ELSE opts[CHOOSE i \in 1..Len(opts) :
                         /\ opts[i].name = h
                         /\ \A j \in (i + 1)..Len(opts) : opts[j].name # h].value]]

RECURSIVE applyOpts(_, _)
applyOpts(req, opts) ==
    IF opts = << >> THEN req
    ELSE applyOpts([req EXCEPT !.Header[Head(opts).name] = Head(opts).value],
                   Tail(opts))

\* A slip in the precondition: the wrong end of the path is tested.
baseURLHasLeadingSlash(c) == HasPrefix(c.BaseURL.Path, << "/" >>)

\* The trailing-slash precondition on the base URL (tado.go:118).
baseURLHasTrailingSlash(c) == HasSuffix(c.BaseURL.Path, << "/" >>)

\* The path resolved as it is, no leading "/" trimmed.
resolveRequestPathUntrimmed(c, path) == URLParse(c.BaseURL, path)

\* The path resolved against the base URL, one leading "/" trimmed (tado.go:122).
resolveRequestPath(c, path) == URLParse(c.BaseURL, TrimPrefix(path, << "/" >>))

setDefaultHeaders(c, req, body) ==
    LET h1 == IF body # "nil"
              THEN [req.Header EXCEPT !["Content-Type"] = "application/json"]
              ELSE req.Header
        h2 == [h1 EXCEPT !["Accept"] = "application/json"]
        h3 == IF c.UserAgent # "" THEN [h2 EXCEPT !["User-Agent"] = c.UserAgent]
              ELSE h2
    IN [req EXCEPT !.Header = h3]

\* (*Client).NewRequest.  steps lists what the call did before it returned.
NewRequest(c, method, path, body, opts) ==
    IF ~baseURLHasTrailingSlash(c)
    THEN [req |-> NoRequest, err |-> "BaseURLError", steps |-> << >>]
    ELSE
    LET url == resolveRequestPath(c, path) IN
    IF url.err # ""
    THEN [req |-> NoRequest, err |-> url.err, steps |-> << "resolve" >>]
    ELSE
    LET enc == IF body # "nil" THEN jsonEncode(body)
               ELSE [err |-> "", payload |-> << >>]
        s2  == IF body # "nil" THEN << "resolve", "encode" >> ELSE << "resolve" >>
    IN
    IF enc.err # ""
    THEN [req |-> NoRequest, err |-> enc.err, steps |-> s2]
    ELSE
    LET made == httpNewRequest(method, URLString(url), enc.payload) IN
    IF made.err # ""
    THEN [req |-> NoRequest, err |-> made.err, steps |-> Append(s2, "http.NewRequest")]
    ELSE [req   |-> applyOpts(setDefaultHeaders(c, made.req, body), opts),
          err   |-> "",
          steps |-> s2 \o << "http.NewRequest", "headers" >>
                       \o [i \in 1..Len(opts) |-> "option"]]

----------------------------------------------------------------------------
(* The request builder on its own: every call of NewRequest on a client whose *)
(* exported BaseURL and UserAgent fields hold any of the values below.        *)

PathTokens == { "/", "a", ".", ":" }

Paths == SeqsUpTo(PathTokens, MaxPath)

Methods == { "GET", "BAD METHOD" }

\* Base URLs: the default, and ones a caller assigns to the exported field.
BaseURLs ==
    { DefaultBaseURL,
      [DefaultBaseURL EXCEPT !.Path = << "/", "api", "/", "v2" >>],
      [DefaultBaseURL EXCEPT !.Path = << "/" >>],
      [DefaultBaseURL EXCEPT !.Path = << >>] }

UserAgents == { DefaultUserAgent, "" }

RequestClients == [BaseURL : BaseURLs, UserAgent : UserAgents]

OptionLists == SeqsUpTo(RequestOptions, MaxOpts)

NoArgs == [c |-> [BaseURL |-> DefaultBaseURL, UserAgent |-> DefaultUserAgent],
           method |-> "GET", path |-> << >>, body |-> "nil", opts |-> << >>]

NoRet == [req |-> NoRequest, err |-> "", steps |-> << >>]

\* No NewRequest call is in progress.
InitRequest ==
    /\ reqPc = "idle"
    /\ reqArgs = NoArgs
    /\ reqRet = NoRet

InitBuilder ==
    /\ InitRequest
    /\ clients = << >>
    /\ sources = << >>
    /\ lastNew = "none"
    /\ call = << >>

CallNewRequest ==
    /\ reqPc = "idle"
    /\ \E c \in RequestClients, method \in Methods, path \in Paths,
          body \in Bodies, opts \in OptionLists :
          /\ reqArgs' = [c |-> c, method |-> method, path |-> path,
                         body |-> body, opts |-> opts]
          /\ reqRet' = NewRequest(c, method, path, body, opts)
    /\ reqPc' = "returned"
    /\ UNCHANGED << clients, sources, lastNew, call >>

ReturnNewRequest ==
    /\ reqPc = "returned"
    /\ reqPc' = "idle"
    /\ reqArgs' = NoArgs
    /\ reqRet' = NoRet
    /\ UNCHANGED << clients, sources, lastNew, call >>

NextRequest == CallNewRequest \/ ReturnNewRequest

SpecRequest == InitBuilder /\ [][NextRequest]_vars

----------------------------------------------------------------------------
(* Errors and contexts *)

NoError == [kind |-> "nil", URL |-> << >>]

ErrNonNilContext == [kind |-> "ErrNonNilContext", URL |-> << >>]

Err(kind) == [kind |-> kind, URL |-> << >>]

\* A context is nil, live, or done for one of the two reasons.
Contexts == { "nil", "live", "canceled", "deadlineExceeded" }

ctxDone(ctx) == ctx \in { "canceled", "deadlineExceeded" }

\* ctx.Err()
ctxErr(ctx) ==
    IF ctx = "canceled" THEN Err("context.Canceled")
    ELSE IF ctx = "deadlineExceeded" THEN Err("context.DeadlineExceeded")
    ELSE NoError

----------------------------------------------------------------------------
(* encoding/json Decoder.Decode into a typed target *)

\* A response body is a text over these tokens: white space, braces, a digit,
\* and "m" for one complete member "id":"x" of an object.
BodyTokens == { " ", "{", "}", "1", "m" }

\* The scanner of Decoder.readValue over the bytes at hand.  It ends with the
\* kind of the first value ("object", "member", "number"), with "syntax" at an
\* offending byte, or with "more" when the bytes end first; a number is only
\* known to be over at the byte that follows it.
RECURSIVE scanValue(_, _, _)
scanValue(data, i, state) ==
    IF i > Len(data)
    THEN (IF state = "begin" THEN "empty"
          ELSE IF state = "number" THEN "number?"
          ELSE "more")
    ELSE LET b == data[i] IN
    CASE state = "begin" ->
           (IF b = " " THEN scanValue(data, i + 1, "begin")
            ELSE IF b = "{" THEN scanValue(data, i + 1, "object")
            ELSE IF b = "1" THEN scanValue(data, i + 1, "number")
            ELSE "syntax")
      [] state = "object" ->
           (IF b = " " THEN scanValue(data, i + 1, "object")
            ELSE IF b = "}" THEN "object"
            ELSE IF b = "m" THEN scanValue(data, i + 1, "member")
            ELSE "syntax")
      [] state = "member" ->
           (IF b = " " THEN scanValue(data, i + 1, "member")
            ELSE IF b = "}" THEN "member"
            ELSE "syntax")
      [] state = "number" ->
           (IF b = "1" THEN scanValue(data, i + 1, "number") ELSE "number")

\* The values a typed target (a pointer to a struct pointer, as in
\* `var user *User; Do(ctx, req, &user)`) can hold.
TargetValues == { "zero", "emptyStruct", "structWithID" }

\* Decoder.Decode(v) on a body that yields data and then io.EOF, or data and
\* then a read error when readErr.  Returns the error and the target's value.
jsonDecode(data, readErr, target) ==
    LET got == scanValue(data, 1, "begin") IN
    CASE got = "empty" ->
           [err |-> IF readErr THEN Err("readError") ELSE Err("io.EOF"),
            target |-> target]
      [] got = "more" ->
           [err |-> IF readErr THEN Err("readError") ELSE Err("io.ErrUnexpectedEOF"),
            target |-> target]
      [] got = "syntax" -> [err |-> Err("json.SyntaxError"), target |-> target]
      [] got = "number?" /\ readErr -> [err |-> Err("readError"), target |-> target]
      [] got \in { "number", "number?" } ->
           \* a number cannot be stored in a struct; the pointer is allocated on
           \* the way to finding that out
           [err |-> Err("json.UnmarshalTypeError"),
            target |-> IF target = "zero" THEN "emptyStruct" ELSE target]
      [] got = "object" ->
           [err |-> NoError,
            target |-> IF target = "zero" THEN "emptyStruct" ELSE target]
      [] got = "member" -> [err |-> NoError, target |-> "structWithID"]

\* io.Copy(v, res.Body): what reaches the sink, and the error.
ioCopy(data, readErr, writerFails, sink) ==
    IF data # << >> /\ writerFails THEN [err |-> Err("writeError"), sink |-> sink]
    ELSE [err  |-> IF readErr THEN Err("readError") ELSE NoError,
          sink |-> sink \o data]

----------------------------------------------------------------------------
(* bareDo, BareDo and Do *)

Threads == { 1, 2 }

NoResponse == [present |-> FALSE, status |-> 0]

NoBody == [data |-> << >>, readErr |-> FALSE, closed |-> 0]

\* The decode targets: none, an io.Writer (one that works, one whose Write
\* fails), a pointer to a typed value.
Targets == { "nil", "writer", "failingWriter", "typed" }

IdleCall ==
    [pc          |-> "idle",
     api         |-> "none",     \* "BareDo" | "Do"
     c           |-> 0,          \* the receiver
     caller      |-> [kind |-> "nil", source |-> 0],  \* the http.Client BareDo passes on
     ctx         |-> "nil",      \* the context argument, as it is now
     v           |-> "nil",      \* the decode target argument
     target      |-> "zero",     \* the value of a typed target
     sink        |-> << >>,      \* what a writer target has received
     callerCalls |-> 0,          \* calls of caller.Do
     cred        |-> [source |-> 0, name |-> "none", gen |-> 0],
                                 \* the credential the round trip carried
     resp        |-> NoResponse, \* what caller.Do returned
     body        |-> NoBody,     \* the body of that response
     err         |-> NoError,    \* the error caller.Do returned
     sawDone     |-> FALSE,      \* ctx was done when the error was examined
     did         |-> "none",     \* what Do did with the body: "copy" | "decode"
     bodyRead    |-> FALSE,      \* the body has been read from
     ret         |-> [res |-> NoResponse, err |-> NoError]]

\* The errors http.Client.Do returns are *url.Error values; URL is the text
\* they carry (the request's URL, or the Location of a refused redirect).
RequestURL == URLString(DefaultBaseURL) \o << "a" >>

ErrorURLs ==
    { RequestURL,
      << "a", ":", "/", "/" >>,
      << ":" >> }

TransportErrors == { [kind |-> "url.Error", URL |-> u] : u \in ErrorURLs }

Statuses == { 200, 404 }

BodyTexts == SeqsUpTo(BodyTokens, MaxBody)

\* What caller.Do can return (net/http, Client.Do): a response with an open
\* body and no error; an error and no response; or, when CheckRedirect
\* refuses a redirect, the response whose body is already closed and an error.
\* The outcomes that matter where only the credential is looked at.
PlainOutcomes ==
    { [resp |-> [present |-> TRUE, status |-> 200], body |-> NoBody, err |-> NoError],
      [resp |-> NoResponse, body |-> NoBody,
       err |-> [kind |-> "url.Error", URL |-> RequestURL]] }

TransportOutcomes ==
    { [resp |-> [present |-> TRUE, status |-> st],
       body |-> [data |-> d, readErr |-> re, closed |-> 0],
       err  |-> NoError] : st \in Statuses, d \in BodyTexts, re \in BOOLEAN }
    \cup { [resp |-> NoResponse, body |-> NoBody, err |-> e] : e \in TransportErrors }
    \cup { [resp |-> [present |-> TRUE, status |-> 302],
            body |-> [data |-> << >>, readErr |-> FALSE, closed |-> 1],
            err  |-> e] : e \in TransportErrors }

\* A status of 400 and above made an error, as API clients often do.
bareDoResultCheckingStatus(ctx, response, err) ==
    IF err.kind # "nil" THEN [res |-> response, err |-> err]
    ELSE IF response.status >= 400 THEN [res |-> response, err |-> Err("ErrorResponse")]
    ELSE [res |-> response, err |-> err]

\* The URL error handled before the context is looked at.
bareDoResultURLErrorFirst(ctx, response, err) ==
    IF err.kind = "nil" THEN [res |-> response, err |-> err]
    ELSE IF err.kind = "url.Error" /\ urlParse(err.URL).err = ""
    THEN [res |-> response, err |-> [err EXCEPT !.URL = URLString(urlParse(err.URL))]]
    ELSE IF ctxDone(ctx) THEN [res |-> NoResponse, err |-> ctxErr(ctx)]
    ELSE [res |-> response, err |-> err]

\* bareDo from the return of caller.Do on (tado.go:182-204): what it returns
\* for the context as it is now, the wrapped response and the error.
bareDoResult(ctx, response, err) ==
    IF err.kind # "nil"
    THEN IF ctxDone(ctx) THEN [res |-> NoResponse, err |-> ctxErr(ctx)]
         ELSE IF err.kind = "url.Error" /\ urlParse(err.URL).err = ""
         THEN [res |-> response,
               err |-> [err EXCEPT !.URL = URLString(urlParse(err.URL))]]
         ELSE [res |-> response, err |-> err]
    ELSE [res |-> response, err |-> err]

\* The decode error kept as it is, io.EOF included.
typedDecodeErrKept(derr) == derr

\* Every error that says the input ended taken for an empty body.
typedDecodeErrAnyEOF(derr) ==
    IF derr.kind \in { "io.EOF", "io.ErrUnexpectedEOF" } THEN NoError ELSE derr

\* The error of Decode as Do reports it: io.EOF, the sign of an empty body,
\* is no error (tado.go:235-237).
typedDecodeErr(derr) == IF derr.kind = "io.EOF" THEN NoError ELSE derr

\* The type switch of Do without its io.Writer case: every target that is not
\* nil is decoded into.
doSwitchDecodeOnly(k) ==
    IF k.v = "nil" THEN k
    ELSE LET dec  == jsonDecode(k.body.data, k.body.readErr, k.target)
             derr == typedDecodeErr(dec.err)
         IN [k EXCEPT !.did = "decode", !.bodyRead = TRUE,
                      !.target = dec.target,
                      !.ret.err = IF derr.kind # "nil" THEN derr ELSE k.ret.err]

\* The type switch of Do on the target (tado.go:229-241).  k is the call's
\* record.
doSwitch(k) ==
    CASE k.v = "nil" -> k
      [] k.v \in { "writer", "failingWriter" } ->
           LET cp == ioCopy(k.body.data, k.body.readErr, k.v = "failingWriter", k.sink)
           IN [k EXCEPT !.did = "copy", !.bodyRead = TRUE,
                        !.sink = cp.sink, !.ret.err = cp.err]
      [] k.v = "typed" ->
           LET dec  == jsonDecode(k.body.data, k.body.readErr, k.target)
               derr == typedDecodeErr(dec.err)
           IN [k EXCEPT !.did = "decode", !.bodyRead = TRUE,
                        !.target = dec.target,
                        !.ret.err = IF derr.kind # "nil" THEN derr ELSE k.ret.err]

\* Do with the deferred res.Body.Close() left out.
doDecodeNoClose(k) == doSwitch(k)

\* Do after BareDo returned without error (tado.go:227-243): the decode chosen
\* by the target, and the deferred Close as Do returns.
doDecode(k) ==
    LET d == doSwitch(k) IN [d EXCEPT !.body.closed = d.body.closed + 1]

\* A caller enters BareDo or Do on client c.
StartCall(t, apis, ctxs, targets) ==
    /\ call[t].pc = "idle"
    /\ \E api \in apis, c \in 1..Len(clients), ctx \in ctxs, v \in targets :
          /\ clients[c].client.kind # "nil"
          /\ api = "BareDo" => v = "nil"
          /\ call' = [call EXCEPT ![t] =
                [IdleCall EXCEPT !.pc = "bareDo", !.api = api, !.c = c,
                                 !.ctx = ctx, !.v = v]]
    /\ UNCHANGED << reqVars, heapVars >>

\* bareDo entered with the nil check forgotten.
bareDoEnterUnchecked(t) ==
    /\ call[t].pc = "bareDo"
    /\ call' = [call EXCEPT ![t].pc = "caller.Do",
                            ![t].caller = clients[call[t].c].client,
                            ![t].callerCalls = call[t].callerCalls + 1]
    /\ UNCHANGED << reqVars, heapVars >>

\* BareDo making an oauth2 http.Client of its own for the call, over a token
\* source it asks the authenticator for, instead of passing on c.client.
bareDoEnterOwnCaller(t) ==
    /\ call[t].pc = "bareDo"
    /\ IF call[t].ctx = "nil"
       THEN /\ call' = [call EXCEPT ![t].pc = "bareDoReturned",
                           ![t].ret = [res |-> [present |-> FALSE, status |-> 0],
                                       err |-> ErrNonNilContext]]
            /\ UNCHANGED sources
       ELSE /\ sources' = Append(sources,
                   [owner |-> call[t].c, name |-> "device", gen |-> 0,
                    expired |-> FALSE, mu |-> 0])
            /\ call' = [call EXCEPT ![t].pc = "caller.Do",
                           ![t].caller = [kind |-> "oauth", source |-> Len(sources) + 1],
                           ![t].callerCalls = call[t].callerCalls + 1]
    /\ UNCHANGED << reqVars, clients, lastNew >>

\* BareDo passing c.client on to bareDo (tado.go:211-213), and bareDo up to
\* the call of caller.Do (tado.go:175-181).
bareDoEnter(t) ==
    /\ call[t].pc = "bareDo"
    /\ IF call[t].ctx = "nil"
       THEN call' = [call EXCEPT ![t].pc = "bareDoReturned",
                                 ![t].ret = [res |-> NoResponse, err |-> ErrNonNilContext]]
       ELSE call' = [call EXCEPT ![t].pc = "caller.Do",
                                 ![t].caller = clients[call[t].c].client,
                                 ![t].callerCalls = call[t].callerCalls + 1]
    /\ UNCHANGED << reqVars, heapVars >>

\* The context of a call in progress is cancelled, or its deadline passes.
CtxDone(t) ==
    /\ call[t].pc \notin { "idle", "returned" }
    /\ call[t].ctx = "live"
    /\ \E d \in { "canceled", "deadlineExceeded" } :
          call' = [call EXCEPT ![t].ctx = d]
    /\ UNCHANGED << reqVars, heapVars >>

\* caller.Do returns.
TransportReturn(t, outcomes) ==
    /\ call[t].pc = "send"
    /\ \E o \in outcomes :
          call' = [call EXCEPT ![t].pc = "examine", ![t].resp = o.resp,
                               ![t].body = o.body, ![t].err = o.err]
    /\ UNCHANGED << reqVars, heapVars >>

\* bareDo from the return of caller.Do to its own return.
bareDoExamine(t) ==
    /\ call[t].pc = "examine"
    /\ call' = [call EXCEPT
          ![t].pc = "bareDoReturned",
          ![t].sawDone = ctxDone(call[t].ctx),
          ![t].ret = bareDoResult(call[t].ctx, call[t].resp, call[t].err)]
    /\ UNCHANGED << reqVars, heapVars >>

\* BareDo hands bareDo's result on (tado.go:211-213); Do returns it as it is
\* when it holds an error (tado.go:223-226) and decodes otherwise.
DoReturn(t) ==
    /\ call[t].pc = "bareDoReturned"
    /\ call' = [call EXCEPT ![t] =
          IF call[t].api = "BareDo" \/ call[t].ret.err.kind # "nil"
          THEN [call[t] EXCEPT !.pc = "returned"]
          ELSE [doDecode(call[t]) EXCEPT !.pc = "returned"]]
    /\ UNCHANGED << reqVars, heapVars >>

\* The caller takes the result; it is free for its next call.
FinishCall(t) ==
    /\ call[t].pc = "returned"
    /\ call' = [call EXCEPT ![t] = IdleCall]
    /\ UNCHANGED << reqVars, heapVars >>

----------------------------------------------------------------------------
(* Claims about NewRequest, checked under SpecRequest *)

\* The same call with one more "/" in front of the path.
WithLeadingSlash ==
    NewRequest(reqArgs.c, reqArgs.method, << "/" >> \o reqArgs.path,
               reqArgs.body, reqArgs.opts)

BaseText == URLString(reqArgs.c.BaseURL)

\* A path made of ordinary segments: no "." or ".." segment, and no ":" in
\* its first segment.
PlainPath(p) ==
    /\ \A i \in 1..Len(SplitSlash(p)) :
          SplitSlash(p)[i] \notin { << "." >>, << ".", "." >> }
    /\ ~Contains(SplitSlash(p)[1], ":")

C4_NoTrailingSlashIsConfigError ==
    (reqPc = "returned" /\ ~HasSuffix(reqArgs.c.BaseURL.Path, << "/" >>))
        => /\ reqRet.req = NoRequest
           /\ reqRet.err = "BaseURLError"
           /\ reqRet.steps = << >>

C4_Witness ==
    /\ reqPc = "returned"
    /\ reqArgs.c.BaseURL.Path = << "/", "api", "/", "v2" >>
    /\ reqArgs.body = "User"
    /\ reqArgs.opts # << >>
    /\ reqArgs.path = << "a" >>
    /\ reqRet.err = "BaseURLError"

\* The payload NewRequest is to send for each body, written out.
ExpectedPayload ==
    [body \in Bodies \ { "nil", "Unsupported" } |->
        CASE body = "User" ->
               << "{", "\"id\"", ":", "\"", "test-id", "\"", "}", "\n" >>
          [] body = "UserHTML" ->
               << "{", "\"id\"", ":", "\"", "<", "a", ">", "&", "\\", "\"", "\"", "}", "\n" >>
          [] body = "UserEmpty" -> << "{", "}", "\n" >>]

\* The options of the call that set header h, by position.
OptionsSetting(h) == { i \in 1..Len(reqArgs.opts) : reqArgs.opts[i].name = h }

\* C13: a request NewRequest returns has a payload and (unless an option
\* overwrote it) Content-Type: application/json exactly when a body was given:
\* with a body the payload is the value's JSON text and one newline, with <, >
\* and & as they are; with none there is no payload and no Content-Type.
C13_PayloadIffBody ==
    (reqPc = "returned" /\ reqRet.err = "")
        => /\ reqArgs.body = "nil"
                => /\ reqRet.req.Body = << >>
                   /\ OptionsSetting("Content-Type") = { }
                         => reqRet.req.Header["Content-Type"] = NoHeader
           /\ reqArgs.body # "nil"
                => /\ reqRet.req.Body = ExpectedPayload[reqArgs.body]
                   /\ OptionsSetting("Content-Type") = { }
                         => reqRet.req.Header["Content-Type"] = "application/json"

C13_Witness ==
    /\ reqPc = "returned" /\ reqRet.err = ""
    /\ reqArgs.body = "UserHTML"
    /\ reqArgs.opts = << >>
    /\ reqRet.req.Body =
          << "{", "\"id\"", ":", "\"", "<", "a", ">", "&", "\\", "\"", "\"", "}", "\n" >>
    /\ reqRet.req.Header["Content-Type"] = "application/json"

\* C14: on a base URL ending in "/", NewRequest returns no request and an
\* error, having sent nothing, when the path does not resolve (a url.Error),
\* else when the body has no JSON encoding (a json.UnsupportedTypeError), else
\* when the method is not valid; the three errors are of different kinds.
C14_BuildErrors ==
    (reqPc = "returned" /\ HasSuffix(reqArgs.c.BaseURL.Path, << "/" >>))
        => LET trimmed == TrimPrefix(reqArgs.path, << "/" >>)
               badPath == \/ URLParse(reqArgs.c.BaseURL, trimmed).err # ""
                          \/ HasPrefix(trimmed, << ":" >>)
               badBody == reqArgs.body = "Unsupported"
               badVerb == reqArgs.method = "BAD METHOD"
           IN /\ badPath => reqRet.err = "url.Error"
              /\ (~badPath /\ badBody) => reqRet.err = "json.UnsupportedTypeError"
              /\ (~badPath /\ ~badBody /\ badVerb) => reqRet.err = "http.InvalidMethod"
              /\ (badPath \/ badBody \/ badVerb)
                    => /\ reqRet.req = NoRequest
                       /\ reqRet.err # ""
                       /\ \A i \in 1..Len(reqRet.steps) :
                             reqRet.steps[i] \in { "resolve", "encode", "http.NewRequest" }

C14_Witness ==
    /\ reqPc = "returned"
    /\ reqArgs.c.BaseURL = DefaultBaseURL
    /\ reqArgs.path = << "a" >>
    /\ reqArgs.body = "nil"
    /\ reqArgs.method = "BAD METHOD"
    /\ reqRet = [req |-> NoRequest, err |-> "http.InvalidMethod",
                 steps |-> << "resolve", "http.NewRequest" >>]

\* The header value the defaults of NewRequest give header h.
DefaultHeader(h) ==
    CASE h = "Accept" -> "application/json"
      [] h = "User-Agent" ->
           IF reqArgs.c.UserAgent # "" THEN reqArgs.c.UserAgent ELSE NoHeader
      [] h = "Content-Type" ->
           IF reqArgs.body # "nil" THEN "application/json" ELSE NoHeader

\* C16: in a request NewRequest returns, a header some option sets has the
\* value of the last option that sets it, whatever the default; a header no
\* option sets has its default: Accept is application/json, User-Agent is
\* the client's when that is not empty.
C16_OptionsAfterDefaults ==
    (reqPc = "returned" /\ reqRet.err = "")
        => \A h \in HeaderNames :
              IF OptionsSetting(h) = { }
              THEN reqRet.req.Header[h] = DefaultHeader(h)
              ELSE \E i \in OptionsSetting(h) :
                      /\ \A j \in OptionsSetting(h) : j <= i
                      /\ reqRet.req.Header[h] = reqArgs.opts[i].value

C16_Witness ==
    /\ reqPc = "returned" /\ reqRet.err = ""
    /\ reqArgs.c.UserAgent = DefaultUserAgent
    /\ reqArgs.opts = << [name |-> "Accept", value |-> "opt1"],
                         [name |-> "Accept", value |-> "opt2"] >>
    /\ reqRet.req.Header["Accept"] = "opt2"
    /\ reqRet.req.Header["User-Agent"] = DefaultUserAgent

----------------------------------------------------------------------------
(* Client assembly: NewClient, initialize, clone, WithOAuthClient *)

NilURL == URLErr("nil")

\* An *http.Client: none, a plain one, or the one oauth2.NewClient makes,
\* whose transport takes a token from token source `source` for each request.
NoCaller == [kind |-> "nil", source |-> 0]

PlainCaller == [kind |-> "plain", source |-> 0]

oauth2NewClient(src) == [kind |-> "oauth", source |-> src]

NoAuthenticator == [kind |-> "nil", config |-> "nil"]

\* An Authenticator of the caller's own, given with WithAuthenticator.
CustomAuthenticator == [kind |-> "custom", config |-> "nil"]

\* NewDeviceAuthenticator (auth.go:45-55)
NewDeviceAuthenticator(config) ==
    [kind   |-> "device",
     config |-> IF config = "nil" THEN "TadoDeviceAuthDefaultOAuth2Config" ELSE config]

\* The zero Client.
NilClient ==
    [authenticator |-> NoAuthenticator,
     client        |-> NoCaller,
     BaseURL       |-> NilURL,
     UserAgent     |-> "",
     common        |-> 0,     \* common.client
     User          |-> 0,     \* the client whose common field User points at
     Home          |-> 0,
     MobileDevice  |-> 0]

\* A token source as config.TokenSource(ctx, token) makes it: it hands out the
\* token it holds and refreshes it once it has expired.  owner is the client
\* it was made for, gen counts the refreshes, mu is the caller holding its lock.
NewSource(owner, name) ==
    [owner |-> owner, name |-> name, gen |-> 0, expired |-> FALSE, mu |-> 0]

\* The credential a source hands out.
Token(s) == [source |-> s, name |-> sources[s].name, gen |-> sources[s].gen]

NoToken == [source |-> 0, name |-> "none", gen |-> 0]

\* (*Client).initialize (tado.go:70-93), on the client at index self; src is
\* the token source the authenticator returned, asked for when c.client is nil.
initialize(self, c, src) ==
    [c EXCEPT !.client       = IF c.client.kind = "nil" THEN oauth2NewClient(src) ELSE @,
              !.BaseURL      = IF c.BaseURL = NilURL THEN DefaultBaseURL ELSE @,
              !.UserAgent    = IF c.UserAgent = "" THEN DefaultUserAgent ELSE @,
              !.common       = self,
              !.User         = self,
              !.Home         = self,
              !.MobileDevice = self]

\* NewClient(opts...) (tado.go:54-66): the options applied, the default
\* authenticator, initialize.  The authenticator's TokenSource succeeds or
\* fails; when it fails initialize panics and no client is returned.
NewClient ==
    /\ Len(clients) < MaxClients
    /\ \E auth \in { NoAuthenticator, CustomAuthenticator }, ok \in BOOLEAN :
          LET self == Len(clients) + 1
              src  == Len(sources) + 1
              tc   == [NilClient EXCEPT !.authenticator =
                          IF auth = NoAuthenticator THEN NewDeviceAuthenticator("nil")
                          ELSE auth]
          IN IF ok
             THEN /\ sources' = Append(sources, NewSource(self, tc.authenticator.kind))
                  /\ clients' = Append(clients, initialize(self, tc, src))
                  /\ lastNew' = "ok"
             ELSE /\ lastNew' = "panic"
                  /\ UNCHANGED << clients, sources >>
    /\ UNCHANGED << reqVars, call >>

\* initialize with the wiring of common and the services left out: a clone
\* keeps the common field it copied.
initializeLegacyUnwired(self, c) ==
    [c EXCEPT !.client    = IF c.client.kind = "nil" THEN PlainCaller ELSE @,
              !.BaseURL   = IF c.BaseURL = NilURL THEN DefaultBaseURL ELSE @,
              !.UserAgent = IF c.UserAgent = "" THEN DefaultUserAgent ELSE @]

\* (*Client).initialize of the version that has WithOAuthClient
\* (tado.go:346-363).
initializeLegacy(self, c) ==
    [c EXCEPT !.client    = IF c.client.kind = "nil" THEN PlainCaller ELSE @,
              !.BaseURL   = IF c.BaseURL = NilURL THEN DefaultBaseURL ELSE @,
              !.UserAgent = IF c.UserAgent = "" THEN DefaultUserAgent ELSE @,
              !.common    = self,
              !.User      = self,
              !.Home      = self]

\* NewClient(httpClient) of that version (tado.go:315-325): a copy of the
\* given http.Client, or a new one.
NewClientLegacy ==
    /\ Len(clients) < MaxClients
    /\ \E httpClient \in { NoCaller, PlainCaller } :
          LET self == Len(clients) + 1
              hc   == IF httpClient = NoCaller THEN PlainCaller ELSE httpClient
          IN clients' = Append(clients,
                 initializeLegacy(self, [NilClient EXCEPT !.client = hc]))
    /\ lastNew' = "ok"
    /\ UNCHANGED << reqVars, sources, call >>

\* (*Client).clone (tado.go:367-383): a new Client with a new http.Client that
\* takes over the transport of c's, and c's BaseURL, UserAgent and common.
clone(c) ==
    [NilClient EXCEPT !.client    = IF c.client.kind # "nil" THEN c.client
                                    ELSE PlainCaller,
                      !.BaseURL   = c.BaseURL,
                      !.UserAgent = c.UserAgent,
                      !.common    = c.common]

\* The tokens callers hold and pass to WithOAuthClient.
StoredTokens == { "tokenA", "tokenB" }

\* WithOAuthClient working on the receiver itself instead of a clone.
WithOAuthClientInPlace(c, token) ==
    /\ Len(sources) < MaxClients
    /\ sources' = Append(sources, NewSource(c, token))
    /\ clients' = [clients EXCEPT ![c] =
          initializeLegacy(c, [clients[c] EXCEPT
              !.client = oauth2NewClient(Len(sources) + 1)])]
    /\ UNCHANGED << reqVars, lastNew, call >>

\* (*Client).WithOAuthClient (tado.go:330-342) on client c: the clone gets an
\* oauth2 http.Client over a token source holding the given token, and is
\* initialized as the call returns.
WithOAuthClient(c, token) ==
    /\ Len(clients) < MaxClients
    /\ LET self == Len(clients) + 1
           src  == Len(sources) + 1
       IN /\ sources' = Append(sources, NewSource(self, token))
          /\ clients' = Append(clients,
                initializeLegacy(self, [clone(clients[c]) EXCEPT
                    !.client = oauth2NewClient(src)]))
    /\ UNCHANGED << reqVars, lastNew, call >>

DeriveClient == \E c \in 1..Len(clients), token \in StoredTokens : WithOAuthClient(c, token)

----------------------------------------------------------------------------
(* The round trip of the http.Client: for an oauth2 client, a token is taken  *)
(* from the token source first.  The source hands out its token while that    *)
(* has not expired and refreshes it otherwise, one caller at a time.          *)

\* caller.Do starts: the transport asks the client's token source for a
\* token.  A plain http.Client sends the request as it is.
roundTripToken(t) ==
    /\ call[t].pc = "caller.Do"
    /\ LET caller == call[t].caller
           s      == caller.source
       IN IF caller.kind # "oauth"
          THEN /\ call' = [call EXCEPT ![t].pc = "send"]
               /\ UNCHANGED sources
          ELSE /\ sources[s].mu = 0
               /\ IF ~sources[s].expired
                  THEN /\ call' = [call EXCEPT ![t].pc = "send",
                                               ![t].cred = Token(s)]
                       /\ UNCHANGED sources
                  ELSE /\ call' = [call EXCEPT ![t].pc = "refresh"]
                       /\ sources' = [sources EXCEPT ![s].mu = t]
    /\ UNCHANGED << reqVars, clients, lastNew >>

\* The refresh round trip to the token endpoint returns.
tokenRefreshReturn(t) ==
    /\ call[t].pc = "refresh"
    /\ LET s == call[t].caller.source IN
       \E ok \in BOOLEAN :
          IF ok
          THEN /\ sources' = [sources EXCEPT ![s].mu = 0, ![s].expired = FALSE,
                                             ![s].gen = sources[s].gen + 1]
               /\ call' = [call EXCEPT ![t].pc = "send",
                      ![t].cred = [Token(s) EXCEPT !.gen = sources[s].gen + 1]]
          ELSE /\ sources' = [sources EXCEPT ![s].mu = 0]
               /\ call' = [call EXCEPT ![t].pc = "examine",
                      ![t].err = [kind |-> "url.Error", URL |-> RequestURL]]
    /\ UNCHANGED << reqVars, clients, lastNew >>

\* Time passes: the token a source holds expires.
TokenExpires ==
    /\ \E s \in 1..Len(sources) :
          /\ ~sources[s].expired
          /\ sources[s].gen < MaxRefresh
          /\ sources' = [sources EXCEPT ![s].expired = TRUE]
    /\ UNCHANGED << reqVars, clients, lastNew, call >>

----------------------------------------------------------------------------
(* Spec: one caller, one client as NewClient() returns it, every context,     *)
(* target and transport outcome.                                              *)

Init ==
    /\ InitRequest
    /\ clients = << initialize(1, [NilClient EXCEPT
                       !.authenticator = NewDeviceAuthenticator("nil")], 1) >>
    /\ sources = << NewSource(1, "device") >>
    /\ lastNew = "ok"
    /\ call = [t \in { 1 } |-> IdleCall]

Callers == DOMAIN call

Start == \E t \in Callers : StartCall(t, { "BareDo", "Do" }, Contexts, Targets)

Enter == \E t \in Callers : bareDoEnter(t)

RoundTrip == \E t \in Callers : roundTripToken(t)

Transport == \E t \in Callers : TransportReturn(t, TransportOutcomes)

Examine == \E t \in Callers : bareDoExamine(t)

Return == \E t \in Callers : DoReturn(t)

Finish == \E t \in Callers : FinishCall(t)

Cancel == \E t \in Callers : CtxDone(t)

Next ==
    \/ Start
    \/ Enter
    \/ RoundTrip
    \/ Transport
    \/ Examine
    \/ Return
    \/ Finish
    \/ Cancel

Spec == Init /\ [][Next]_vars

----------------------------------------------------------------------------
(* SpecClient: clients are made and derived, and one caller dispatches        *)
(* requests through any of them.                                              *)

InitClient ==
    /\ InitRequest
    /\ clients = << >>
    /\ sources = << >>
    /\ lastNew = "none"
    /\ call = [t \in { 1 } |-> IdleCall]

StartPlain == \E t \in Callers : StartCall(t, { "BareDo" }, { "live" }, { "nil" })

TransportPlain == \E t \in Callers : TransportReturn(t, PlainOutcomes)

NextClient ==
    \/ NewClient
    \/ NewClientLegacy
    \/ DeriveClient
    \/ StartPlain
    \/ Enter
    \/ RoundTrip
    \/ TransportPlain
    \/ Examine
    \/ Return
    \/ Finish

SpecClient == InitClient /\ [][NextClient]_vars

----------------------------------------------------------------------------
(* SpecShared: one client, made by NewClient, shared by two callers; the      *)
(* token its source holds may expire and is then refreshed.                   *)

InitShared ==
    /\ InitRequest
    /\ clients = << >>
    /\ sources = << >>
    /\ lastNew = "none"
    /\ call = [t \in Threads |-> IdleCall]

NewSharedClient == clients = << >> /\ NewClient

Refresh == \E t \in Callers : tokenRefreshReturn(t)

NextShared ==
    \/ NewSharedClient
    \/ StartPlain
    \/ Enter
    \/ RoundTrip
    \/ Refresh
    \/ TransportPlain
    \/ Examine
    \/ Return
    \/ Finish
    \/ TokenExpires

SpecShared == InitShared /\ [][NextShared]_vars

----------------------------------------------------------------------------
(* Claims about BareDo and Do, checked under Spec *)

Returned(t) == call[t].pc = "returned"

\* bareDo has returned: BareDo hands its result on unchanged.
Dispatched(t) ==
    \/ call[t].pc = "bareDoReturned"
    \/ call[t].pc = "returned" /\ call[t].api = "BareDo"

\* caller.Do returned a response and no error.
TransportOK(t) == call[t].resp.present /\ call[t].err.kind = "nil"

\* C1: a call of BareDo or Do with a nil context never calls caller.Do, and
\* returns no response and ErrNonNilContext.
C1_NilContextNoCall ==
    \A t \in Callers :
        (call[t].pc # "idle" /\ call[t].ctx = "nil")
            => /\ call[t].callerCalls = 0
               /\ call[t].pc \in { "bareDo", "bareDoReturned", "returned" }
               /\ call[t].pc # "bareDo"
                    => call[t].ret = [res |-> NoResponse, err |-> ErrNonNilContext]

C1_Witness ==
    \E t \in Callers :
        /\ Returned(t) /\ call[t].api = "Do" /\ call[t].v = "typed"
        /\ call[t].ctx = "nil"
        /\ call[t].ret.err = ErrNonNilContext

\* C2: when caller.Do returned an error and the context was done as bareDo
\* examined it, the call returns the context's error and no response, whatever
\* the transport's error was.
C2_DoneContextWins ==
    \A t \in Callers :
        (call[t].pc \in { "bareDoReturned", "returned" }
            /\ call[t].err.kind # "nil" /\ call[t].sawDone)
            => /\ call[t].ret.err = ctxErr(call[t].ctx)
               /\ call[t].ret.err.kind \in { "context.Canceled", "context.DeadlineExceeded" }
               /\ call[t].ret.res = NoResponse

C2_Witness ==
    \E t \in Callers :
        /\ Returned(t) /\ call[t].sawDone
        /\ call[t].err.kind = "url.Error" /\ urlParse(call[t].err.URL).err = ""
        /\ call[t].ret.err.kind = "context.DeadlineExceeded"

\* C5: Do with a typed target and a response whose body is empty returns the
\* response and no error, and the target still holds its zero value.
C5_EmptyBodyIsNoError ==
    \A t \in Callers :
        (Returned(t) /\ call[t].api = "Do" /\ call[t].v = "typed" /\ TransportOK(t)
            /\ call[t].body.data = << >> /\ ~call[t].body.readErr)
            => /\ call[t].ret.err = NoError
               /\ call[t].ret.res = call[t].resp
               /\ call[t].target = "zero"

C5_Witness ==
    \E t \in Callers :
        /\ Returned(t) /\ call[t].api = "Do" /\ call[t].v = "typed" /\ TransportOK(t)
        /\ call[t].body.data = << >> /\ ~call[t].body.readErr
        /\ call[t].body.closed = 1
        /\ call[t].ret.err = NoError

\* A text with its white space taken out.
Squeeze(text) == SelectSeq(text, LAMBDA b : b # " ")

\* The JSON texts a struct target accepts: an object, empty or with the member.
ValidJSONForTarget(text) == Squeeze(text) \in { << "{", "}" >>, << "{", "m", "}" >> }

\* The text begins with a JSON value the target accepts.
BeginsWithValidJSON(text) ==
    \E n \in 1..Len(text) : ValidJSONForTarget(SubSeq(text, 1, n))

\* C6 as stated: Do with a typed target and a response whose body is not empty
\* and is not valid JSON for the target returns an error, and the body is closed.
C6_InvalidBodyIsError ==
    \A t \in Callers :
        (Returned(t) /\ call[t].api = "Do" /\ call[t].v = "typed" /\ TransportOK(t)
            /\ call[t].body.data # << >> /\ ~ValidJSONForTarget(call[t].body.data))
            => /\ call[t].ret.err # NoError
               /\ call[t].body.closed = 1

\* C6 amended: Do with a typed target and a response whose body holds more
\* than white space and does not begin with a JSON value valid for the target
\* returns an error, and the body is closed.  (A body of white space alone
\* counts as empty, and what follows the first value is not looked at.)
C6_MalformedFirstValueIsError ==
    \A t \in Callers :
        (Returned(t) /\ call[t].api = "Do" /\ call[t].v = "typed" /\ TransportOK(t)
            /\ Squeeze(call[t].body.data) # << >>
            /\ ~BeginsWithValidJSON(call[t].body.data))
            => /\ call[t].ret.err # NoError
               /\ call[t].body.closed = 1

C6_Witness ==
    \E t \in Callers :
        /\ Returned(t) /\ call[t].api = "Do" /\ call[t].v = "typed" /\ TransportOK(t)
        /\ call[t].body.data = << "{", "m" >>
        /\ call[t].ret.err.kind = "io.ErrUnexpectedEOF"
        /\ call[t].body.closed = 1

\* C7: when Do returns and caller.Do had produced a response, the body of that
\* response has been closed exactly once.
C7_BodyClosedOnce ==
    \A t \in Callers :
        (Returned(t) /\ call[t].api = "Do" /\ call[t].resp.present)
            => call[t].body.closed = 1

C7_Witness ==
    \E t \in Callers :
        /\ Returned(t) /\ call[t].api = "Do" /\ TransportOK(t)
        /\ call[t].v = "failingWriter"
        /\ call[t].ret.err.kind = "writeError"
        /\ call[t].body.closed = 1

\* C8: whenever caller.Do returned a response and no error, bareDo returns
\* that response and no error, whatever its status code; and the only errors
\* bareDo returns are ErrNonNilContext, the context's error and the transport's.
C8_StatusIsNoError ==
    \A t \in Callers :
        Dispatched(t)
            => /\ TransportOK(t)
                    => call[t].ret = [res |-> call[t].resp, err |-> NoError]
               /\ call[t].ret.err.kind \in
                    { "nil", "ErrNonNilContext", "context.Canceled",
                      "context.DeadlineExceeded", "url.Error" }

C8_Witness ==
    \E t \in Callers :
        /\ Dispatched(t) /\ TransportOK(t)
        /\ call[t].resp.status = 404
        /\ call[t].ret = [res |-> call[t].resp, err |-> NoError]

\* C17: when Do returns after caller.Do gave a response and no error, it has
\* done what the target asks for and nothing else: with no target the body
\* was not read; with an io.Writer the body's bytes are in the writer as they
\* came, nothing was decoded, and a failure of the copy is the error returned;
\* with any other target the body was decoded into it.  When the dispatch
\* failed the body was not read and the target and the writer are untouched.
C17_OneDecodePerTarget ==
    \A t \in Callers :
        (Returned(t) /\ call[t].api = "Do")
            => LET k == call[t] IN
               IF TransportOK(t)
               THEN CASE k.v = "nil" ->
                           /\ k.did = "none" /\ ~k.bodyRead
                           /\ k.sink = << >> /\ k.target = "zero"
                           /\ k.ret = [res |-> k.resp, err |-> NoError]
                      [] k.v = "writer" ->
                           /\ k.did = "copy" /\ k.target = "zero"
                           /\ k.sink = k.body.data
                           /\ k.ret.err = IF k.body.readErr THEN Err("readError")
                                          ELSE NoError
                      [] k.v = "failingWriter" ->
                           /\ k.did = "copy" /\ k.target = "zero"
                           /\ k.sink = << >>
                           /\ k.body.data # << >> => k.ret.err = Err("writeError")
                      [] k.v = "typed" ->
                           /\ k.did = "decode" /\ k.bodyRead
                           /\ k.sink = << >>
                           /\ ValidJSONForTarget(k.body.data)
                                 => /\ k.target # "zero"
                                    /\ ~k.body.readErr => k.ret.err = NoError
               ELSE /\ k.did = "none" /\ ~k.bodyRead
                    /\ k.sink = << >> /\ k.target = "zero"
                    /\ k.ret.err # NoError

C17_Witness ==
    \E t \in Callers :
        /\ Returned(t) /\ call[t].api = "Do" /\ TransportOK(t)
        /\ call[t].v = "writer"
        /\ call[t].body.data = << "{", "m" >>
        /\ call[t].sink = << "{", "m" >>
        /\ call[t].did = "copy"
        /\ call[t].ret.err = NoError

----------------------------------------------------------------------------
(* Claims about client assembly and the shared token source *)

\* C9 (under SpecClient): no step changes a client that exists, whatever is
\* derived from it and whatever is requested through the derived clients:
\* its http.Client, authenticator, BaseURL, UserAgent and service handles stay
\* as they were; making or deriving a client leaves the token sources of the
\* others alone; and a request through a client carries a credential of the
\* token source that client was made with.
C9_DerivingLeavesOriginal ==
    [][ /\ Len(clients') >= Len(clients)
        /\ \A i \in 1..Len(clients) : clients'[i] = clients[i]
        /\ Len(clients') > Len(clients)
             => \A s \in 1..Len(sources) : sources'[s] = sources[s]
        /\ \A t \in Callers :
             (call'[t].cred # call[t].cred /\ call'[t].cred # NoToken)
                 => /\ call'[t].cred.source = clients[call[t].c].client.source
                    /\ call'[t].cred.name = sources[call'[t].cred.source].name
      ]_vars

\* Client 1 was made with an authenticator of the caller's own, client 2 was
\* derived from it with a stored token, and a request through client 1 has
\* returned, carrying the credential of client 1's own token source.
C9_Witness ==
    /\ Len(clients) >= 2
    /\ clients[1].authenticator = CustomAuthenticator
    /\ clients[1].client = oauth2NewClient(1)
    /\ clients[1].User = 1 /\ clients[1].Home = 1 /\ clients[1].common = 1
    /\ clients[2].client.kind = "oauth"
    /\ sources[clients[2].client.source].name \in StoredTokens
    /\ clients[2].common = 2
    /\ \E t \in Callers :
          /\ Returned(t) /\ call[t].c = 1
          /\ call[t].cred = [source |-> 1, name |-> "custom", gen |-> 0]

\* The callers in the refresh round trip of token source s.
Refreshing(s) ==
    { t \in Callers : call[t].pc = "refresh" /\ call[t].caller.source = s }

\* C10 (under SpecShared): the callers of a shared client never have two
\* refresh round trips under way at once; while the token the source holds has
\* not expired no caller refreshes and every request carries that token; each
\* client has the one token source its initialization asked for, and every
\* call goes through the http.Client made over it.
C10_SharedTokenSource ==
    /\ \A s \in 1..Len(sources) :
          /\ Cardinality(Refreshing(s)) < 2
          /\ (sources[s].gen = 0 /\ ~sources[s].expired)
                => /\ Refreshing(s) = { }
                   /\ \A t \in Callers :
                         call[t].cred.source = s => call[t].cred = Token(s)
    /\ Len(sources) = Len(clients)
    /\ \A c \in 1..Len(clients) :
          /\ clients[c].client.kind = "oauth"
          /\ sources[clients[c].client.source].owner = c
    /\ \A t \in Callers :
          call[t].caller.kind # "nil" => call[t].caller = clients[call[t].c].client

\* Both callers have a request under way through client 1, each carrying the
\* token the source has held since it was made.
C10_Witness ==
    /\ Len(clients) = 1
    /\ sources[1].gen = 0 /\ ~sources[1].expired
    /\ \A t \in Threads :
          /\ call[t].pc = "send" /\ call[t].c = 1
          /\ call[t].cred = [source |-> 1, name |-> "device", gen |-> 0]


----------------------------------------------------------------------------
(* SpecInit: Client.initialize (tado.go:70-93) step by step, invoked on       *)
(* one client by two goroutines, each of them several times.                  *)

\* The invocations of initialize one goroutine makes.
MaxInits == 2

\* The frame of a goroutine in initialize: where it is, the invocations it has
\* finished, the TokenSource calls it has made, the token source it was given.
IdleInit == [pc |-> "idle", runs |-> 0, asked |-> 0, src |-> 0]

\* A client as NewClient has it when it calls initialize: the options applied
\* and the authenticator in place.
InitInit ==
    /\ InitRequest
    /\ \E auth \in { NewDeviceAuthenticator("nil"), CustomAuthenticator } :
          clients = << [NilClient EXCEPT !.authenticator = auth] >>
    /\ sources = << >>
    /\ lastNew = "none"
    /\ call = [t \in Threads |-> IdleInit]

\* initialize is invoked.
initializeEnter(t) ==
    /\ call[t].pc = "idle"
    /\ call[t].runs < MaxInits
    /\ call' = [call EXCEPT ![t].pc = "checkClient"]
    /\ UNCHANGED << reqVars, heapVars >>

\* if c.client == nil (tado.go:71)
initializeCheckClient(t) ==
    /\ call[t].pc = "checkClient"
    /\ call' = [call EXCEPT ![t].pc =
          IF clients[1].client = NoCaller THEN "TokenSource" ELSE "defaults"]
    /\ UNCHANGED << reqVars, heapVars >>

\* c.authenticator.TokenSource(context.Background()) returns (tado.go:72-75):
\* a token source, or an error, on which initialize panics.
initializeTokenSource(t) ==
    /\ call[t].pc = "TokenSource"
    /\ \E ok \in BOOLEAN :
          IF ok
          THEN /\ sources' = Append(sources, NewSource(1, clients[1].authenticator.kind))
               /\ call' = [call EXCEPT ![t].pc = "oauth2.NewClient",
                                       ![t].asked = @ + 1,
                                       ![t].src = Len(sources) + 1]
               /\ UNCHANGED lastNew
          ELSE /\ call' = [call EXCEPT ![t].pc = "idle",
                                       ![t].asked = @ + 1,
                                       ![t].runs = @ + 1]
               /\ lastNew' = "panic"
               /\ UNCHANGED sources
    /\ UNCHANGED << reqVars, clients >>

\* c.client = oauth2.NewClient(context.Background(), token) (tado.go:77)
initializeSetClient(t) ==
    /\ call[t].pc = "oauth2.NewClient"
    /\ clients' = [clients EXCEPT ![1].client = oauth2NewClient(call[t].src)]
    /\ call' = [call EXCEPT ![t].pc = "defaults"]
    /\ UNCHANGED << reqVars, sources, lastNew >>

\* The rest of initialize (tado.go:80-92): BaseURL, UserAgent, common and the
\* services; the invocation returns.
initializeDefaults(t) ==
    /\ call[t].pc = "defaults"
    /\ clients' = [clients EXCEPT ![1] = initialize(1, clients[1], call[t].src)]
    /\ call' = [call EXCEPT ![t].pc = "idle", ![t].runs = @ + 1, ![t].src = 0]
    /\ lastNew' = IF lastNew = "panic" THEN lastNew ELSE "ok"
    /\ UNCHANGED << reqVars, sources >>

InitEnter == \E t \in Callers : initializeEnter(t)

InitCheckClient == \E t \in Callers : initializeCheckClient(t)

InitTokenSource == \E t \in Callers : initializeTokenSource(t)

InitSetClient == \E t \in Callers : initializeSetClient(t)

InitDefaults == \E t \in Callers : initializeDefaults(t)

NextInit ==
    \/ InitEnter
    \/ InitCheckClient
    \/ InitTokenSource
    \/ InitSetClient
    \/ InitDefaults

SpecInit == InitInit /\ [][NextInit]_vars

\* The calls of the authenticator's TokenSource made so far.
TokenSourceCalls == call[1].asked + call[2].asked

\* C11 as stated (under SpecInit): however often and by however many
\* goroutines initialize is invoked on a client, as long as no invocation has
\* failed the authenticator's TokenSource has been called at most once, at
\* most one http.Client has been made for the client, and once every
\* invocation has returned the client is as one invocation leaves it.
C11_InitializeRunsOnce ==
    lastNew # "panic"
        => /\ TokenSourceCalls <= 1
           /\ Len(sources) <= 1
           /\ (lastNew = "ok" /\ \A t \in Callers : call[t].pc = "idle")
                 => clients[1] = initialize(1, clients[1], 1)


C12_NewClientDefersTokenSource ==
    [][ NewClient
          => /\ sources' = sources
             /\ lastNew' # "panic"
             /\ Len(clients') = Len(clients) + 1
             /\ clients'[Len(clients')].client = NoCaller
             /\ clients'[Len(clients')].authenticator
                   \in { CustomAuthenticator,
                         NewDeviceAuthenticator("nil") }
      ]_vars


----------------------------------------------------------------------------
(* SpecDevice: DeviceAuthenticator.TokenSource (auth.go:62-77) step by step,  *)
(* called by two goroutines, each with a context that may be cancelled while  *)
(* the call is under way.                                                     *)

\* The token sources TokenSource hands out in one behaviour.
MaxLogins == 2

NoSource == 0

\* The frame of a goroutine in TokenSource: its context, the steps it has
\* taken, whether each exchange succeeded, whether the context was done while
\* it waited for the token, and what it returned.
IdleLogin ==
    [pc |-> "idle", ctx |-> "live", steps |-> << >>, deviceCode |-> FALSE,
     token |-> FALSE, cancelledInWait |-> FALSE,
     ret |-> [src |-> NoSource, err |-> NoError]]

InitDevice ==
    /\ InitRequest
    /\ clients = << >>
    /\ sources = << >>
    /\ lastNew = "none"
    /\ call = [t \in Threads |-> IdleLogin]

\* TokenSource is called; it calls a.config.DeviceAuth(ctx) (auth.go:63).
deviceTokenSourceEnter(t) ==
    /\ call[t].pc = "idle"
    /\ Len(sources) < MaxLogins
    /\ \E ctx \in { "live", "canceled" } :
          call' = [call EXCEPT ![t] =
              [IdleLogin EXCEPT !.pc = "DeviceAuth", !.ctx = ctx,
                                !.steps = << "DeviceAuth" >>]]
    /\ UNCHANGED << reqVars, heapVars >>

\* DeviceAuth returning, its error taken for success: the flow goes on.
deviceAuthReturnUnchecked(t) ==
    /\ call[t].pc = "DeviceAuth"
    /\ \E ok \in BOOLEAN :
          /\ ok => ~ctxDone(call[t].ctx)
          /\ call' = [call EXCEPT ![t].deviceCode = ok, ![t].pc = "print"]
    /\ UNCHANGED << reqVars, heapVars >>

\* DeviceAuth returns (auth.go:63-66): a device code, or an error, with which
\* TokenSource returns.  The exchange fails when the context is done.
deviceAuthReturn(t) ==
    /\ call[t].pc = "DeviceAuth"
    /\ \E ok \in BOOLEAN :
          /\ ok => ~ctxDone(call[t].ctx)
          /\ call' = [call EXCEPT ![t] =
                IF ok
                THEN [call[t] EXCEPT !.deviceCode = TRUE, !.pc = "print"]
                ELSE [call[t] EXCEPT !.pc = "returned",
                         !.ret = [src |-> NoSource,
                                  err |-> IF ctxDone(call[t].ctx)
                                          THEN ctxErr(call[t].ctx)
                                          ELSE Err("oauth2.RetrieveError")]]]
    /\ UNCHANGED << reqVars, heapVars >>

\* The verification URI and the user code are printed, and
\* a.config.DeviceAccessToken(ctx, deviceCode) is called (auth.go:68-71).
devicePrint(t) ==
    /\ call[t].pc = "print"
    /\ call' = [call EXCEPT ![t].pc = "DeviceAccessToken",
                            ![t].steps = @ \o << "print", "DeviceAccessToken" >>]
    /\ UNCHANGED << reqVars, heapVars >>

\* DeviceAccessToken returns (auth.go:71-74): it polls until the user has
\* logged in, the server refuses, or the context is done.
deviceAccessTokenReturn(t) ==
    /\ call[t].pc = "DeviceAccessToken"
    /\ \E ok \in BOOLEAN :
          /\ ok => ~ctxDone(call[t].ctx)
          /\ call' = [call EXCEPT ![t] =
                IF ok
                THEN [call[t] EXCEPT !.token = TRUE, !.pc = "TokenSource"]
                ELSE [call[t] EXCEPT !.pc = "returned",
                         !.cancelledInWait = ctxDone(call[t].ctx),
                         !.ret = [src |-> NoSource,
                                  err |-> IF ctxDone(call[t].ctx)
                                          THEN ctxErr(call[t].ctx)
                                          ELSE Err("oauth2.RetrieveError")]]]
    /\ UNCHANGED << reqVars, heapVars >>

\* return a.config.TokenSource(ctx, token), nil (auth.go:76)
deviceWrap(t) ==
    /\ call[t].pc = "TokenSource"
    /\ sources' = Append(sources, NewSource(0, "device"))
    /\ call' = [call EXCEPT ![t].pc = "returned",
                            ![t].steps = Append(@, "TokenSource"),
                            ![t].ret = [src |-> Len(sources) + 1, err |-> NoError]]
    /\ UNCHANGED << reqVars, clients, lastNew >>

\* The caller takes the result.
deviceFinish(t) ==
    /\ call[t].pc = "returned"
    /\ call' = [call EXCEPT ![t] = IdleLogin]
    /\ UNCHANGED << reqVars, heapVars >>

DeviceEnter == \E t \in Callers : deviceTokenSourceEnter(t)

DeviceAuth == \E t \in Callers : deviceAuthReturn(t)

DevicePrint == \E t \in Callers : devicePrint(t)

DeviceAccessToken == \E t \in Callers : deviceAccessTokenReturn(t)

DeviceWrap == \E t \in Callers : deviceWrap(t)

DeviceFinish == \E t \in Callers : deviceFinish(t)

NextDevice ==
    \/ DeviceEnter
    \/ DeviceAuth
    \/ DevicePrint
    \/ DeviceAccessToken
    \/ DeviceWrap
    \/ DeviceFinish
    \/ Cancel

SpecDevice == InitDevice /\ [][NextDevice]_vars

\* The steps of TokenSource in their order.
DeviceFlow == << "DeviceAuth", "print", "DeviceAccessToken", "TokenSource" >>

\* C15 (under SpecDevice): the steps a call of TokenSource has taken are
\* always a beginning of: device authorization, print URI and code, wait for
\* the token, wrap it in a token source.  It returns a token source exactly
\* when it returns no error, and then both exchanges succeeded and all four
\* steps were taken.  When an exchange fails it returns no token source and an
\* error, and the step that failed is the last one taken; when the context is
\* done while it waits for the token, the error is the context's
\* (cancelled, or past its deadline).
C15_DeviceFlowOrder ==
    \A t \in Callers :
        LET k == call[t] IN
        /\ Len(k.steps) <= Len(DeviceFlow)
        /\ k.steps = SubSeq(DeviceFlow, 1, Len(k.steps))
        /\ k.pc = "returned"
              => /\ (k.ret.src # NoSource) <=> (k.ret.err = NoError)
                 /\ k.ret.src # NoSource
                       => /\ k.deviceCode /\ k.token
                          /\ k.steps = DeviceFlow
                          /\ k.ret.src \in 1..Len(sources)
                 /\ ~k.deviceCode => k.steps = << "DeviceAuth" >>
                 /\ (k.deviceCode /\ ~k.token)
                       => k.steps = << "DeviceAuth", "print", "DeviceAccessToken" >>
                 /\ k.cancelledInWait
                       => /\ k.ret = [src |-> NoSource, err |-> ctxErr(k.ctx)]
                          /\ k.ret.err.kind \in { "context.Canceled",
                                                  "context.DeadlineExceeded" }

\* A call whose context was cancelled while it waited for the user to log in
\* has returned the context's error, having printed the URI and the code.
C15_Witness ==
    \E t \in Callers :
        /\ call[t].pc = "returned"
        /\ call[t].cancelledInWait
        /\ call[t].steps = << "DeviceAuth", "print", "DeviceAccessToken" >>
        /\ call[t].ret = [src |-> NoSource, err |-> Err("context.Canceled")]

====
